---- MODULE Spec2Model ----
(***************************************************************************)
(* Pagination of a CV document into fixed-height pages.                    *)
(*                                                                         *)
(* The orchestrator (timeline template) keeps the list `pages` of start    *)
(* cursors and renders one Page component per entry.  A Page builds its    *)
(* content row by row: every component it renders (a SectionTitle or a row *)
(* component) reports its scrollHeight once, when it is mounted, through   *)
(* titleCreatedHandler / sectionCreatedHandler.  The reports that have     *)
(* been scheduled by a mount but not yet handled are the page's `pending`  *)
(* list.                                                                   *)
(*                                                                         *)
(* Two things the Svelte runtime decides are part of the model: when a     *)
(* Page's bind:this={container} takes effect (`container`), and whether    *)
(* the queued onMount callback of a component that a rollback has just     *)
(* taken out of the template still runs (`eagerBlocks`, fixed per build).  *)
(*                                                                         *)
(* `handled` counts the reports a Page has handled and `overflowSignals`   *)
(* its calls of throwPageOverFlow; no handler reads either.                *)
(*                                                                         *)
(* Cursors are 0-based, as in the source; sequences are 1-based.  The      *)
(* elHeights ledger, which only feeds the red debug bars of the template,  *)
(* is left out: no handler reads it.                                       *)
(***************************************************************************)
EXTENDS Naturals, Integers, Sequences, FiniteSets, TLC

(* ------------------------------ bounds -------------------------------- *)
MaxRows == 3          \* rows in a document, over all its sections

(* --------------------------- program constants ------------------------ *)
allMarginBorderHeight == 66

VARIABLES
    allSections,    \* the document: Seq of [sectionType, titleHeight, rows]
    clientHeight,   \* container.clientHeight of every page
    eagerBlocks,    \* the build: are {#each} blocks updated between callbacks
    pages,          \* orchestrator: Seq of [startIndex, startSubIndex]
    pageState,      \* the mounted Page components, by the key of their entry
    rPages,         \* a second pagination pass (restart harness): its pages
    rPageState,     \*   and its Page instances
    restartAt,      \* 0: no second pass yet; k: second pass started at pages[k]
    \* the test-utilities service, DELETE /cleanup/all/:user_id
    pc,             \* the handler's position
    user_id,        \* req.params.user_id
    client,         \* the pooled client: "none", "held" or "released"
    connectionLost, \* the client's connection to the database is broken
    users,          \* committed rows of table users (set of ids)
    resumes,        \* committed rows of table resumes (number per user_id)
    tx,             \* the client's transaction: [state, users, resumes]
    before,         \* the committed tables when the request arrived
    res,            \* the response sent: "none" or a status code
    forwardsRejections, \* the build: the router answers a rejected handler
    \* the media status updater, cloud function updateMediaRecord
    media,          \* committed rows of table media, by id
    media_variants, \* committed rows of media_variants, by <<media_id, variant_type>>
    now,            \* the database clock: CURRENT_TIMESTAMP of the next transaction
    inst,           \* the function instances: each one's invocation in progress
    events,         \* number of cloud events delivered so far
    faults,         \* downloads, connections and statements may fail
    redelivery,     \* every event after the first carries the first one's manifest
    afterFirst      \* the committed tables when the first invocation returned

testUtils == <<pc, user_id, client, connectionLost, users, resumes, tx, before, res, forwardsRejections>>

updater == <<media, media_variants, now, inst, events, faults, redelivery, afterFirst>>

vars == <<allSections, clientHeight, eagerBlocks, pages, pageState, rPages, rPageState, restartAt, testUtils, updater>>

\* the test-utilities service with no request
noRequest ==
    /\ pc = "idle"
    /\ user_id = ""
    /\ client = "none"
    /\ connectionLost = FALSE
    /\ users = {}
    /\ resumes = <<>>
    /\ tx = [state |-> "none"]
    /\ before = <<>>
    /\ res = "none"
    /\ forwardsRejections = FALSE

\* the media status updater with no event
noEvent ==
    /\ media = <<>>
    /\ media_variants = <<>>
    /\ now = 0
    /\ inst = <<>>
    /\ events = 0
    /\ faults = FALSE
    /\ redelivery = FALSE
    /\ afterFirst = <<>>

(* ------------------------------ helpers ------------------------------- *)
Last(s) == s[Len(s)]
Front(s) == SubSeq(s, 1, Len(s) - 1)

RECURSIVE SumSeq(_)
SumSeq(s) == IF s = <<>> THEN 0 ELSE s[1] + SumSeq(Tail(s))

RECURSIVE Flatten(_)
Flatten(ss) == IF ss = <<>> THEN <<>> ELSE ss[1] \o Flatten(Tail(ss))

SeqsUpTo(S, lo, hi) == UNION {[1..n -> S] : n \in lo..hi}

(* --------------------------- section model ---------------------------- *)
\* ESectionTypes, restricted to the rendering shapes of the Page template:
\* Header (no title, rows[0] only) and Experience (a SectionTitle, then one
\* component per row).  Project, Publication, Volunteering, TrainingCourse,
\* Skill and Language render as Experience does; Summary renders as an
\* Experience section holding its single row.
SectionTypes == {"Header", "Experience"}

\* scrollHeight of a row or of a title
Heights == {1, 2}

\* ISection: the rows of a source section are represented by their measured
\* scrollHeight; a row is identified by its 0-based position.
HeaderSections == [sectionType : {"Header"}, titleHeight : {0},
                   rows : [1..1 -> Heights]]
ExperienceSections(n) == [sectionType : {"Experience"}, titleHeight : Heights,
                          rows : [1..n -> Heights]]
\* the sections of n rows
ISection(n) == (IF n = 1 THEN HeaderSections ELSE {}) \cup ExperienceSections(n)

\* allSections: the documents of n rows in all
RECURSIVE DocumentsOf(_)
DocumentsOf(n) ==
    IF n = 0 THEN {<<>>}
    ELSE UNION {{<<s>> \o d : s \in ISection(k), d \in DocumentsOf(n - k)} :
                   k \in 1..n}

Documents == UNION {DocumentsOf(n) : n \in 1..MaxRows}

\* container.clientHeight: the margin allowance plus a usable height
Capacities == {allMarginBorderHeight + c : c \in {1, 2, 3}}

rowsLength(i) == Len(allSections[i + 1].rows)
rowHeight(i, j) == allSections[i + 1].rows[j + 1]

\* cloneSection: a page-local copy; src names the source section the clone
\* took its type, title and display setting from, rows are source row indices.
\* cloneSection without the copy: the source section itself
cloneSectionSameObject(i) ==
    [src |-> i, shared |-> TRUE, rows |-> [j \in 1..rowsLength(i) |-> j - 1]]

\* shared tells whether the page-section is the source section object itself
\* (an assignment to its data.rows is then an assignment to the source's):
\* cloneSection returns a new object with a new rows array.
cloneSection(i) ==
    [src |-> i, shared |-> FALSE, rows |-> [j \in 1..rowsLength(i) |-> j - 1]]

constructFirstSection(initialIndex, initialSubIndex) ==
    [cloneSection(initialIndex) EXCEPT !.rows = <<initialSubIndex>>]

(* ------------------------- measurement reports ------------------------ *)
\* src and row name the reporting component: the SectionTitle of source
\* section src (row 0), or the component of its row `row`.
titleMsg(i) == [kind |-> "title", src |-> i, row |-> 0,
                scrollHeight |-> allSections[i + 1].titleHeight]
rowMsg(i, j) == [kind |-> "row", src |-> i, row |-> j,
                 scrollHeight |-> rowHeight(i, j)]

\* rows[j] of source section i is undefined: the section has no such row
undefinedRow(i, j) == j >= rowsLength(i)

hasUndefinedRow(ps) ==
    \E r \in 1..Len(ps.rows) : undefinedRow(ps.src, ps.rows[r])

\* Components mounted when a page-section is first rendered by the
\* {#each pageSections} block, in template order.  Rendering a row component
\* with undefined data throws: nothing of that page-section reports.
mountSection(ps) ==
    LET t == allSections[ps.src + 1].sectionType IN
    IF hasUndefinedRow(ps) THEN <<>>
    ELSE IF t = "Header" THEN <<rowMsg(ps.src, ps.rows[1])>>
    ELSE <<titleMsg(ps.src)>> \o [k \in 1..Len(ps.rows) |-> rowMsg(ps.src, ps.rows[k])]

\* Component mounted when one row is appended to an existing page-section:
\* only the multi-row templates iterate over rows.
mountRow(i, j) ==
    IF allSections[i + 1].sectionType = "Experience" THEN <<rowMsg(i, j)>> ELSE <<>>

showsTitle(ps) == allSections[ps.src + 1].sectionType # "Header"

(* ------------------------------- Page --------------------------------- *)
\* newPage with contentHeight kept outside the component instance: a Page
\* starts from the margin allowance plus what the list of pages has grown by.
newPageSharedHeight(startIndex, startSubIndex) ==
    IF startIndex >= Len(allSections)
    THEN [mounted |-> FALSE, currentIndex |-> startIndex,
          currentSubIndex |-> startSubIndex, pageSections |-> <<>>,
          contentHeight |-> allMarginBorderHeight + Len(pages) - 1,
          pending |-> <<>>, firstRender |-> 0, handled |-> 0,
          overflowSignals |-> 0]
    ELSE LET first == constructFirstSection(startIndex, startSubIndex) IN
         [mounted |-> TRUE, currentIndex |-> startIndex,
          currentSubIndex |-> startSubIndex, pageSections |-> <<first>>,
          contentHeight |-> allMarginBorderHeight + Len(pages) - 1,
          pending |-> mountSection(first),
          firstRender |-> Len(mountSection(first)), handled |-> 0,
          overflowSignals |-> 0]

newPage(startIndex, startSubIndex) ==
    IF startIndex >= Len(allSections)
    THEN \* cloneSection(undefined) throws: the component never initialises
         [mounted |-> FALSE, currentIndex |-> startIndex,
          currentSubIndex |-> startSubIndex, pageSections |-> <<>>,
          contentHeight |-> allMarginBorderHeight,
          pending |-> <<>>, firstRender |-> 0, handled |-> 0,
          overflowSignals |-> 0]
    ELSE LET first == constructFirstSection(startIndex, startSubIndex) IN
         [mounted |-> TRUE, currentIndex |-> startIndex,
          currentSubIndex |-> startSubIndex, pageSections |-> <<first>>,
          contentHeight |-> allMarginBorderHeight,
          pending |-> mountSection(first),
          firstRender |-> Len(mountSection(first)), handled |-> 0,
          overflowSignals |-> 0]

\* container as it would be were it bound before any child reports
containerBoundAtCreation(P) == TRUE

\* bind:this={container}: the Page assigns `container` in a mount effect of
\* its own, created after those of the components its first render mounted
\* (the div's children are initialised before the div's bindings), so it runs
\* after their onMount callbacks.  `container` is undefined while a report of
\* the first render is handled and bound from then on.
container(P) == P.firstRender = 0

\* hasOverFlown that also reports a height equal to the maximum
hasOverFlownAtCapacity(maxHeight, currentHeight) == currentHeight >= maxHeight

hasOverFlown(maxHeight, currentHeight) == currentHeight > maxHeight

\* addOneMoreSubSection without the currentIndex++ at the last row of a
\* section: the page goes on with the first row of the same section.
addOneMoreSubSectionSameSection(P) ==
    IF P.currentIndex < Len(allSections)
    THEN IF P.currentSubIndex >= rowsLength(P.currentIndex) - 1
         THEN LET ci == P.currentIndex
                  newSection == constructFirstSection(ci, 0) IN
              [P EXCEPT !.currentSubIndex = 0,
                        !.pageSections = Append(@, newSection),
                        !.pending = @ \o mountSection(newSection)]
         ELSE LET si == P.currentSubIndex + 1
                  n == Len(P.pageSections) IN
              IF n = 0
              THEN [P EXCEPT !.currentSubIndex = si]
              ELSE [P EXCEPT !.currentSubIndex = si,
                             !.pageSections[n].rows = Append(@, si),
                             !.pending = @ \o mountRow(P.pageSections[n].src, si)]
    ELSE P

\* addOneMoreSubSection with currentIndex += 2 at the last row of a section
addOneMoreSubSectionSkipsSection(P) ==
    IF P.currentIndex < Len(allSections)
    THEN IF P.currentSubIndex >= rowsLength(P.currentIndex) - 1
         THEN LET ci == P.currentIndex + 2 IN
              IF ci >= Len(allSections)
              THEN [P EXCEPT !.currentIndex = ci, !.currentSubIndex = 0]
              ELSE LET newSection == constructFirstSection(ci, 0) IN
                   [P EXCEPT !.currentIndex = ci, !.currentSubIndex = 0,
                             !.pageSections = Append(@, newSection),
                             !.pending = @ \o mountSection(newSection)]
         ELSE LET si == P.currentSubIndex + 1
                  n == Len(P.pageSections) IN
              IF n = 0
              THEN [P EXCEPT !.currentSubIndex = si]
              ELSE [P EXCEPT !.currentSubIndex = si,
                             !.pageSections[n].rows = Append(@, si),
                             !.pending = @ \o mountRow(P.pageSections[n].src, si)]
    ELSE P

addOneMoreSubSection(P) ==
    IF P.currentIndex < Len(allSections)
    THEN IF P.currentSubIndex >= rowsLength(P.currentIndex) - 1
         THEN LET ci == P.currentIndex + 1 IN
              IF ci >= Len(allSections)
              THEN [P EXCEPT !.currentIndex = ci, !.currentSubIndex = 0]
              ELSE LET newSection == constructFirstSection(ci, 0) IN
                   [P EXCEPT !.currentIndex = ci, !.currentSubIndex = 0,
                             !.pageSections = Append(@, newSection),
                             !.pending = @ \o mountSection(newSection)]
         ELSE LET si == P.currentSubIndex + 1
                  n == Len(P.pageSections) IN
              IF n = 0
              THEN \* pageSections[-1].data: TypeError after the increment
                   [P EXCEPT !.currentSubIndex = si]
              ELSE [P EXCEPT !.currentSubIndex = si,
                             !.pageSections[n].rows = Append(@, si),
                             !.pending = @ \o mountRow(P.pageSections[n].src, si)]
    ELSE P

\* removeLastAddedSubSection throws a TypeError when it indexes an empty
\* pageSections array.
removeThrows(P) == P.currentSubIndex # 0 /\ P.pageSections = <<>>

removeLastAddedSubSection(P) ==
    LET n == Len(P.pageSections) IN
    IF P.currentSubIndex = 0
    THEN [P EXCEPT !.pageSections = IF n = 0 THEN <<>> ELSE Front(@)]
    ELSE [P EXCEPT !.pageSections[n].rows = IF @ = <<>> THEN <<>> ELSE Front(@)]

\* The handlers return the page after the call and the cursors passed to
\* throwPageOverFlow during the call.
overflowExit(P) ==
    IF removeThrows(P)
    THEN [page |-> P, thrown |-> <<>>]
    ELSE LET Q == removeLastAddedSubSection(P) IN
         [page |-> [Q EXCEPT !.overflowSignals = @ + 1],
          thrown |-> <<[startIndex |-> Q.currentIndex,
                        startSubIndex |-> Q.currentSubIndex]>>]

titleCreatedHandler(P, msg) ==
    LET Q == [P EXCEPT !.contentHeight = @ + msg.scrollHeight] IN
    IF container(P) /\ hasOverFlown(clientHeight, Q.contentHeight)
    THEN overflowExit(Q)
    ELSE [page |-> Q, thrown |-> <<>>]

sectionCreatedHandler(P, msg) ==
    LET Q == [P EXCEPT !.contentHeight = @ + msg.scrollHeight]
        overFlown == container(P) /\ hasOverFlown(clientHeight, Q.contentHeight) IN
    IF ~overFlown
    THEN [page |-> addOneMoreSubSection(Q), thrown |-> <<>>]
    ELSE overflowExit(Q)

(* --------------------------- orchestrator ----------------------------- *)
RemoveAt(s, i) == SubSeq(s, 1, i - 1) \o SubSeq(s, i + 1, Len(s))

\* The reports of a Page's first render are the first `firstRender` pending
\* ones; those of later renders can only follow them.
deliverable(P, i) ==
    i \in 1..Len(P.pending) /\ (i <= P.firstRender \/ P.firstRender = 0)

\* the component that is to deliver msg is still in the page's template
rendered(P, msg) ==
    \E k \in 1..Len(P.pageSections) :
        /\ P.pageSections[k].src = msg.src
        /\ msg.kind = "row" =>
              \E r \in 1..Len(P.pageSections[k].rows) :
                  P.pageSections[k].rows[r] = msg.row

\* A rollback takes components out of the {#each pageSections} block whose
\* onMount callbacks are already queued.  A build that updates the block
\* before it runs the next queued callback destroys them unheard; a build
\* that updates it after the queue has run still delivers their reports.
unmount(P) ==
    IF eagerBlocks
    THEN LET stays(msg) == rendered(P, msg) IN
         [P EXCEPT !.pending = SelectSeq(@, stays)]
    ELSE P

\* One mounted component of a page delivers its report: the i-th pending one.
\* The Page's bind:this effect follows the last report of the first render.
deliver(P, i) ==
    LET msg == P.pending[i]
        Q == [P EXCEPT !.pending = RemoveAt(@, i)]
        r == IF msg.kind = "title" THEN titleCreatedHandler(Q, msg)
             ELSE sectionCreatedHandler(Q, msg) IN
    [r EXCEPT !.page = [unmount(@) EXCEPT
                           !.firstRender = IF @ > 0 THEN @ - 1 ELSE 0,
                           !.handled = @ + 1]]

\* The key of the keyed {#each pages} block:
\* 'cv-page-' + startIndex + '' + startSubIndex.
pageKey(c) == <<c.startIndex, c.startSubIndex>>

\* {#each pages as page (key)}: one Page component per key; an entry whose
\* key is already rendered mounts nothing.
renderPages(st, thrown) ==
    LET new == {pageKey(thrown[k]) : k \in 1..Len(thrown)} \ DOMAIN st IN
    [key \in DOMAIN st \cup new |->
        IF key \in DOMAIN st THEN st[key] ELSE newPage(key[1], key[2])]

\* allSections after the Pages st have written their page-sections: a
\* page-section that is a source section object carries its rows into the
\* document.
sectionsAfter(st) ==
    [i \in 1..Len(allSections) |->
        LET all == UNION {{<<key, k>> : k \in 1..Len(st[key].pageSections)} :
                             key \in DOMAIN st}
            hits == {h \in all :
                        /\ st[h[1]].pageSections[h[2]].src = i - 1
                        /\ st[h[1]].pageSections[h[2]].shared}
        IN IF hits = {} THEN allSections[i]
           ELSE LET h == CHOOSE x \in hits : TRUE
                    ps == st[h[1]].pageSections[h[2]]
                IN [allSections[i] EXCEPT
                       !.rows = [r \in 1..Len(ps.rows) |->
                                    allSections[i].rows[ps.rows[r] + 1]]]]

\* throwPageOverFlow pushes the cursor; the each block then renders.
throwPageOverFlow(ps, st, thrown) ==
    [pages |-> ps \o thrown, pageState |-> renderPages(st, thrown)]

step(ps, st, key, i) ==
    LET r == deliver(st[key], i) IN
    throwPageOverFlow(ps, [st EXCEPT ![key] = r.page], r.thrown)

firstPage == [startIndex |-> 0, startSubIndex |-> 0]

Init ==
    /\ allSections \in Documents
    /\ clientHeight \in Capacities
    /\ eagerBlocks \in BOOLEAN
    /\ pages = <<firstPage>>
    /\ pageState = renderPages(<<>>, <<firstPage>>)
    /\ rPages = <<>>
    /\ rPageState = <<>>
    /\ restartAt = 0
    /\ noRequest
    /\ noEvent

firstPass == <<pages, pageState>>
secondPass == <<rPages, rPageState, restartAt>>
inputs == <<clientHeight, eagerBlocks>>

TitleCreated(key, i) ==
    /\ deliverable(pageState[key], i)
    /\ pageState[key].pending[i].kind = "title"
    /\ LET r == step(pages, pageState, key, i) IN
         /\ pages' = r.pages
         /\ pageState' = r.pageState
         /\ allSections' = sectionsAfter(r.pageState)
    /\ UNCHANGED <<inputs, testUtils, updater, secondPass>>

SectionCreated(key, i) ==
    /\ deliverable(pageState[key], i)
    /\ pageState[key].pending[i].kind = "row"
    /\ LET r == step(pages, pageState, key, i) IN
         /\ pages' = r.pages
         /\ pageState' = r.pageState
         /\ allSections' = sectionsAfter(r.pageState)
    /\ UNCHANGED <<inputs, testUtils, updater, secondPass>>

\* every mounted component has reported
Finished(st) == \A key \in DOMAIN st : st[key].pending = <<>>

\* A second pagination pass over the same document, started from the cursor
\* of entry k of the finished first pass: `pages` initialised to that cursor
\* instead of (0, 0).
Restart(k) ==
    /\ restartAt = 0
    /\ Finished(pageState)
    /\ k \in 1..Len(pages)
    /\ restartAt' = k
    /\ rPages' = <<pages[k]>>
    /\ rPageState' = renderPages(<<>>, <<pages[k]>>)
    /\ allSections' = sectionsAfter(rPageState')
    /\ UNCHANGED <<inputs, testUtils, updater, firstPass>>

RestartTitleCreated(key, i) ==
    /\ deliverable(rPageState[key], i)
    /\ rPageState[key].pending[i].kind = "title"
    /\ LET r == step(rPages, rPageState, key, i) IN
         /\ rPages' = r.pages
         /\ rPageState' = r.pageState
         /\ allSections' = sectionsAfter(r.pageState)
    /\ UNCHANGED <<inputs, testUtils, updater, firstPass, restartAt>>

RestartSectionCreated(key, i) ==
    /\ deliverable(rPageState[key], i)
    /\ rPageState[key].pending[i].kind = "row"
    /\ LET r == step(rPages, rPageState, key, i) IN
         /\ rPages' = r.pages
         /\ rPageState' = r.pageState
         /\ allSections' = sectionsAfter(r.pageState)
    /\ UNCHANGED <<inputs, testUtils, updater, firstPass, restartAt>>

\* Svelte runs the onMount callbacks of the components one render mounted in
\* template order, before the next render: reports are delivered in the
\* order the components were mounted.
Next ==
    \/ \E key \in DOMAIN pageState :
          pageState[key].pending # <<>> /\ TitleCreated(key, 1)
    \/ \E key \in DOMAIN pageState :
          pageState[key].pending # <<>> /\ SectionCreated(key, 1)

Spec == Init /\ [][Next]_vars

\* The reports a page is waiting for are delivered in any order (those of
\* its first render before those of later renders).
NextAnyOrder ==
    \/ \E key \in DOMAIN pageState : \E i \in 1..Len(pageState[key].pending) :
          TitleCreated(key, i)
    \/ \E key \in DOMAIN pageState : \E i \in 1..Len(pageState[key].pending) :
          SectionCreated(key, i)

SpecAnyOrder == Init /\ [][NextAnyOrder]_vars

\* Two passes, both in mount order; the second starts at a cursor a page of
\* the first has passed to throwPageOverFlow.
NextRestart ==
    \/ Next
    \/ \E k \in 2..Len(pages) : Restart(k)
    \/ \E key \in DOMAIN rPageState :
          rPageState[key].pending # <<>> /\ RestartTitleCreated(key, 1)
    \/ \E key \in DOMAIN rPageState :
          rPageState[key].pending # <<>> /\ RestartSectionCreated(key, 1)

SpecRestart == Init /\ [][NextRestart]_vars

\* Two passes from (0, 0): the first delivers its reports in any order, the
\* second in mount order.
NextTwoPasses ==
    \/ NextAnyOrder
    \/ Restart(1)
    \/ \E key \in DOMAIN rPageState :
          rPageState[key].pending # <<>> /\ RestartTitleCreated(key, 1)
    \/ \E key \in DOMAIN rPageState :
          rPageState[key].pending # <<>> /\ RestartSectionCreated(key, 1)

SpecTwoPasses == Init /\ [][NextTwoPasses]_vars

(* ----------------------- reading a pagination ------------------------- *)
\* the rendered pages, in page order: the keys of ps by first occurrence
RECURSIVE Dedup(_)
Dedup(ps) ==
    IF ps = <<>> THEN <<>>
    ELSE LET d == Dedup(Front(ps)) IN
         IF \E k \in 1..Len(d) : d[k] = Last(ps) THEN d ELSE Append(d, Last(ps))

pageOrder(ps) == LET d == Dedup(ps) IN [k \in 1..Len(d) |-> pageKey(d[k])]

\* the rows of source section i held by page P, in page-section order
RECURSIVE rowsOf(_, _)
rowsOf(pss, i) ==
    IF pss = <<>> THEN <<>>
    ELSE (IF pss[1].src = i THEN pss[1].rows ELSE <<>>) \o rowsOf(Tail(pss), i)

rowCount(P) == SumSeq([k \in 1..Len(P.pageSections) |-> Len(P.pageSections[k].rows)])

\* the rows of source section i over all pages, in page order
rowsAcrossPages(ps, st, i) ==
    LET o == pageOrder(ps) IN
    Flatten([k \in 1..Len(o) |-> rowsOf(st[o[k]].pageSections, i)])

sourceRows(i) == [j \in 1..rowsLength(i) |-> j - 1]

\* a page's construction has ended: it signalled overflow or ran out of
\* document, and nothing it mounted is still to report
pageEnded(P) ==
    /\ P.mounted
    /\ P.pending = <<>>
    /\ P.overflowSignals > 0 \/ P.currentIndex >= Len(allSections)

(* ------------------------------ claims -------------------------------- *)
\* C1 (Completeness): once pagination has finished, the rows held for each
\* source section, concatenated over the pages in page order, are exactly
\* that section's row sequence.
C1_Completeness ==
    Finished(pageState) =>
        \A i \in 0..(Len(allSections) - 1) :
            rowsAcrossPages(pages, pageState, i) = sourceRows(i)

\* C2 (Minimum occupancy): every page whose construction has ended holds at
\* least one row.
C2_MinimumOccupancy ==
    \A key \in DOMAIN pageState :
        pageEnded(pageState[key]) => rowCount(pageState[key]) >= 1

\* the measured height of what is left on a page: its rows and the title of
\* every page-section that shows one
placedHeight(P) ==
    SumSeq([k \in 1..Len(P.pageSections) |->
        LET ps == P.pageSections[k] IN
        (IF showsTitle(ps) THEN allSections[ps.src + 1].titleHeight ELSE 0)
        + SumSeq([r \in 1..Len(ps.rows) |-> rowHeight(ps.src, ps.rows[r])])])

onlyRowOversized(P) ==
    /\ rowCount(P) = 1
    /\ LET ps == Last(P.pageSections) IN
       allMarginBorderHeight + rowHeight(ps.src, ps.rows[1]) > clientHeight

\* C3 (Capacity respect): on every ended page, except a page whose only row
\* is by itself taller than the capacity, the heights of the rows and titles
\* left on the page plus the margin allowance do not exceed the capacity.
C3_CapacityRespect ==
    \A key \in DOMAIN pageState :
        LET P == pageState[key] IN
        (pageEnded(P) /\ ~onlyRowOversized(P)) =>
            allMarginBorderHeight + placedHeight(P) <= clientHeight

cursorLess(a, b) ==
    \/ a.startIndex < b.startIndex
    \/ a.startIndex = b.startIndex /\ a.startSubIndex < b.startSubIndex

\* C5 (Forward progress): the start cursors in the pages list are strictly
\* increasing, so no two entries share a start cursor.
C5_ForwardProgress ==
    \A k \in 1..(Len(pages) - 1) : cursorLess(pages[k], pages[k + 1])

\* the pages that place (render, and count the height of) the title of
\* source section i
pagesPlacingTitle(i) ==
    {key \in DOMAIN pageState :
        \E k \in 1..Len(pageState[key].pageSections) :
            LET ps == pageState[key].pageSections[k] IN
            ps.src = i /\ showsTitle(ps)}

\* C10 (Titles are never duplicated): the title of a section is placed on at
\* most one page, and never on a page that starts in the middle of the
\* section.
C10_TitlePlacedOnce ==
    \A i \in 0..(Len(allSections) - 1) :
        /\ Cardinality(pagesPlacingTitle(i)) <= 1
        /\ \A key \in pagesPlacingTitle(i) : ~(key[1] = i /\ key[2] > 0)

(* termination *)
totalRows == SumSeq([i \in 1..Len(allSections) |-> Len(allSections[i].rows)])

\* the number of rows from cursor (i, j) to the end of the document
remainingRows(i, j) ==
    IF i >= Len(allSections) THEN 0
    ELSE totalRows - (SumSeq([s \in 1..i |-> Len(allSections[s].rows)]) + j)

\* every cursor a page can start at: one per row, and the end of the document
allKeys ==
    {<<i, j>> \in (0..(Len(allSections) - 1)) \X (0..(totalRows - 1)) :
        j < rowsLength(i)} \cup {<<Len(allSections), 0>>}

\* C4 (Termination): every step of pagination is one placement attempt of one
\* page (a report it handles); the attempts a page has made and has still to
\* make never exceed two (a title and a row) for each row from its start
\* cursor to the end of the document, the rendered pages start at cursors of
\* the document, and the list of pages stays within two entries per row:
\* pagination stops, also when a row is taller than the capacity.
C4_Termination ==
    /\ \A key \in DOMAIN pageState :
          pageState[key].handled + Len(pageState[key].pending)
              <= 2 * remainingRows(key[1], key[2])
    /\ DOMAIN pageState \subseteq allKeys
    /\ Len(pages) <= 1 + 2 * totalRows

someRowOversized ==
    \E i \in 0..(Len(allSections) - 1) : \E j \in 0..(rowsLength(i) - 1) :
        allMarginBorderHeight + rowHeight(i, j) > clientHeight

C4_Witness ==
    /\ someRowOversized
    /\ Finished(pageState)
    /\ Len(pages) >= 2

samePages(ps1, st1, ps2, st2) ==
    /\ pageOrder(ps1) = pageOrder(ps2)
    /\ \A key \in DOMAIN st1 \cap DOMAIN st2 :
          st1[key].pageSections = st2[key].pageSections

\* C6 (Determinism): two finished passes over the same document with the
\* same capacity and heights render the same pages, in the same order, with
\* the same rows, whatever the order in which the reports were delivered.
C6_Determinism ==
    (restartAt = 1 /\ Finished(pageState) /\ Finished(rPageState)) =>
        /\ DOMAIN rPageState = DOMAIN pageState
        /\ samePages(pages, pageState, rPages, rPageState)

\* the part of the page order from key c on
suffixFrom(o, c) ==
    IF \E k \in 1..Len(o) : o[k] = c
    THEN SubSeq(o, CHOOSE k \in 1..Len(o) : o[k] = c, Len(o))
    ELSE <<>>

\* C7 (Idempotent restart): a pass started at the cursor of an entry of a
\* finished pass renders exactly the pages the first pass rendered from that
\* cursor on, each with the same content.
C7_IdempotentRestart ==
    (restartAt >= 1 /\ Finished(pageState) /\ Finished(rPageState)) =>
        /\ pageOrder(rPages) = suffixFrom(pageOrder(pages), pageKey(pages[restartAt]))
        /\ \A key \in DOMAIN rPageState :
              key \in DOMAIN pageState /\ rPageState[key] = pageState[key]

C7_Witness ==
    /\ restartAt >= 2
    /\ Finished(pageState)
    /\ Finished(rPageState)
    /\ Len(pageOrder(rPages)) >= 2

(* -------------------------- worked scenarios -------------------------- *)
\* Documents around the two worked scenarios: a Header of height 40 or 150,
\* an Experience section with a title of height 20 and rows of height 30 or
\* 80, or one row of height 150; usable page height 100.
ScenarioSections ==
    [sectionType : {"Header"}, titleHeight : {0}, rows : {<<40>>, <<150>>}]
    \cup [sectionType : {"Experience"}, titleHeight : {20},
          rows : SeqsUpTo({30, 80}, 1, 3) \cup {<<150>>}]

ScenarioDocuments == SeqsUpTo(ScenarioSections, 1, 2)

InitScenario ==
    /\ allSections \in ScenarioDocuments
    /\ clientHeight = allMarginBorderHeight + 100
    /\ eagerBlocks \in BOOLEAN
    /\ pages = <<firstPage>>
    /\ pageState = renderPages(<<>>, <<firstPage>>)
    /\ rPages = <<>>
    /\ rPageState = <<>>
    /\ restartAt = 0
    /\ noRequest
    /\ noEvent

SpecScenario == InitScenario /\ [][Next]_vars

headerThenExperience ==
    <<[sectionType |-> "Header", titleHeight |-> 0, rows |-> <<40>>],
      [sectionType |-> "Experience", titleHeight |-> 20, rows |-> <<30, 30, 80>>]>>

\* C8 (Scenario): Header(40), Experience(title 20, rows 30, 30, 80), usable
\* height 100: exactly three pages; page 1 holds the Header row and
\* Experience row 1 (90 in all), page 2 only Experience row 2 with no title
\* counted again (30), page 3 only Experience row 3.
C8_HeaderExperienceScenario ==
    (allSections = headerThenExperience /\ Finished(pageState)) =>
        /\ pages = <<[startIndex |-> 0, startSubIndex |-> 0],
                     [startIndex |-> 1, startSubIndex |-> 1],
                     [startIndex |-> 1, startSubIndex |-> 2]>>
        /\ pageState[<<0, 0>>].pageSections =
              <<[src |-> 0, shared |-> FALSE, rows |-> <<0>>],
                [src |-> 1, shared |-> FALSE, rows |-> <<0>>]>>
        /\ placedHeight(pageState[<<0, 0>>]) = 90
        /\ pageState[<<1, 1>>].pageSections =
              <<[src |-> 1, shared |-> FALSE, rows |-> <<1>>]>>
        /\ placedHeight(pageState[<<1, 1>>]) = 30
        /\ pageState[<<1, 2>>].pageSections =
              <<[src |-> 1, shared |-> FALSE, rows |-> <<2>>]>>

singleOversizedRow ==
    /\ Len(allSections) = 1
    /\ allSections[1].rows = <<150>>

\* C9 (Scenario): a single section with a single row of height 150, usable
\* height 100: the row stays alone on page 1, no overflow is signalled and
\* pagination ends with exactly one page.
C9_OversizedRowScenario ==
    (singleOversizedRow /\ Finished(pageState)) =>
        /\ pages = <<firstPage>>
        /\ pageState[<<0, 0>>].overflowSignals = 0
        /\ rowCount(pageState[<<0, 0>>]) = 1

C9_Witness ==
    /\ singleOversizedRow
    /\ Finished(pageState)
    /\ pageState[<<0, 0>>].contentHeight > clientHeight

(* ------------------------- claims C11 to C20 -------------------------- *)
\* C11 (No orphan title): on every ended page, every page-section that shows
\* a title holds at least one row, also on a page that starts in the middle
\* of a section.
C11_NoOrphanTitle ==
    \A key \in DOMAIN pageState :
        LET P == pageState[key] IN
        pageEnded(P) =>
            \A k \in 1..Len(P.pageSections) :
                showsTitle(P.pageSections[k]) => Len(P.pageSections[k].rows) >= 1

\* a continuation page that has rolled a row back and still shows a title
C11_Witness ==
    \E key \in DOMAIN pageState :
        LET P == pageState[key] IN
        /\ key[2] > 0
        /\ pageEnded(P)
        /\ P.overflowSignals > 0
        /\ \E k \in 1..Len(P.pageSections) : showsTitle(P.pageSections[k])

(* malformed input *)
\* Documents that may hold a section without rows, and container heights
\* that leave no usable height.
MalformedDocuments == SeqsUpTo(ISection(1) \cup ExperienceSections(0), 1, 2)

InitMalformed ==
    /\ allSections \in MalformedDocuments
    /\ clientHeight \in {0, allMarginBorderHeight} \cup Capacities
    /\ eagerBlocks \in BOOLEAN
    /\ pages = <<firstPage>>
    /\ pageState = renderPages(<<>>, <<firstPage>>)
    /\ rPages = <<>>
    /\ rPageState = <<>>
    /\ restartAt = 0
    /\ noRequest
    /\ noEvent

SpecMalformed == InitMalformed /\ [][Next]_vars

malformed ==
    \/ \E i \in 0..(Len(allSections) - 1) : rowsLength(i) = 0
    \/ clientHeight <= allMarginBorderHeight

\* C12 (Malformed input fails fast): with a section without rows, or a
\* capacity of zero or less, no Page is built, no page-section holding an
\* undefined row is created and no entry is appended to pages.
C12_MalformedFailsFast ==
    malformed =>
        /\ \A key \in DOMAIN pageState :
              /\ ~pageState[key].mounted
              /\ \A k \in 1..Len(pageState[key].pageSections) :
                    ~hasUndefinedRow(pageState[key].pageSections[k])
        /\ pages = <<firstPage>>

\* a Page that has called throwPageOverFlow or has moved its cursor past the
\* last section
pageFinished(P) ==
    P.mounted /\ (P.overflowSignals > 0 \/ P.currentIndex >= Len(allSections))

\* C13 (A finished page is immutable): once a Page has signalled overflow or
\* reached the end of the document, no step changes its pageSections or its
\* cursor.
C13_FinishedPageImmutable ==
    [][\A key \in DOMAIN pageState :
          pageFinished(pageState[key]) =>
              /\ pageState'[key].pageSections = pageState[key].pageSections
              /\ pageState'[key].currentIndex = pageState[key].currentIndex
              /\ pageState'[key].currentSubIndex = pageState[key].currentSubIndex]_vars

\* C14 (The document is read-only): no step of pagination changes
\* allSections; what the engine appends to and pops from is the clone.
C14_DocumentReadOnly == [][allSections' = allSections]_vars

\* a page built by constructFirstSection has appended a row to its clone
\* and rolled a row back, and a later page has been built
C14_Witness ==
    /\ Finished(pageState)
    /\ Len(pages) >= 2
    /\ \E key \in DOMAIN pageState :
          /\ pageState[key].overflowSignals > 0
          /\ rowCount(pageState[key]) >= 2

\* the cursor after the last row the Page started at key still holds, or
\* the Page's start cursor when it holds none
firstNotKept(P, key) ==
    IF rowCount(P) = 0 THEN [startIndex |-> key[1], startSubIndex |-> key[2]]
    ELSE LET held == SelectSeq(P.pageSections, LAMBDA ps : ps.rows # <<>>)
             ps == Last(held)
             j == Last(ps.rows)
         IN IF j + 1 < rowsLength(ps.src)
            THEN [startIndex |-> ps.src, startSubIndex |-> j + 1]
            ELSE [startIndex |-> ps.src + 1, startSubIndex |-> 0]

\* C15 (Orchestrator chaining): pages starts as the single entry (0,0);
\* a step only appends to it, one entry, signalled by the Page of the last
\* entry, equal to the cursor of the first row that Page does not hold, and
\* never the cursor past the end of the document.
C15_OrchestratorChaining ==
    /\ pages = <<firstPage>>
    /\ [][/\ Len(pages') >= Len(pages)
          /\ SubSeq(pages', 1, Len(pages)) = pages
          /\ Len(pages') > Len(pages) =>
                LET key == pageKey(Last(pages)) IN
                /\ Len(pages') = Len(pages) + 1
                /\ pageState'[key].overflowSignals > pageState[key].overflowSignals
                /\ Last(pages') = firstNotKept(pageState'[key], key)
                /\ Last(pages').startIndex < Len(allSections)]_vars

\* C16 (No overlapping measurements): on every Page at most one placed unit
\* has a measurement report outstanding, also when a new section's title and
\* first row are placed.
C16_NoOverlappingMeasurements ==
    \A key \in DOMAIN pageState : Len(pageState[key].pending) <= 1

(* ------------- test utilities: DELETE /cleanup/all/:user_id ----------- *)
(* The handler of the test-utilities service, one step per awaited call.   *)
(* pool is a pool of PostgreSQL clients: a statement that fails inside a   *)
(* transaction leaves it aborted, ROLLBACK discards the transaction's      *)
(* writes, COMMIT makes them the committed rows, and a transaction whose   *)
(* connection is lost is rolled back by the server.                        *)

MaxResumes == 2         \* resume rows of one user

UserIds == {"u1", "u2"}                 \* ids that match the UUID pattern
RequestIds == UserIds \cup {"not-a-uuid"}

\* /^[0-9a-fA-F-]{36}$/.test(user_id)
wellFormed(id) == id \in UserIds

\* outcomes of client.query: it resolves, the statement is refused by the
\* database, or the connection breaks; a broken connection stays broken
QueryOutcomes == IF connectionLost THEN {"lost"} ELSE {"ok", "error", "lost"}

\* ROLLBACK is never refused by a database it reaches
RollbackOutcomes == IF connectionLost THEN {"lost"} ELSE {"ok", "lost"}

noTransaction == [state |-> "none"]

\* the transaction after a statement that was refused or lost
failed(outcome) ==
    IF outcome = "lost" \/ tx.state = "none" THEN noTransaction
    ELSE [state |-> "aborted"]

InitCleanup ==
    /\ allSections = <<>>
    /\ clientHeight = 0
    /\ eagerBlocks = FALSE
    /\ pages = <<>>
    /\ pageState = <<>>
    /\ rPages = <<>>
    /\ rPageState = <<>>
    /\ restartAt = 0
    /\ pc = "idle"
    /\ user_id = ""
    /\ client = "none"
    /\ connectionLost = FALSE
    /\ users \in SUBSET UserIds
    /\ resumes \in [UserIds -> 0..MaxResumes]
    /\ tx = noTransaction
    /\ before = [users |-> users, resumes |-> resumes]
    /\ res = "none"
    /\ forwardsRejections \in BOOLEAN
    /\ noEvent

paging == <<allSections, clientHeight, eagerBlocks, pages, pageState, rPages, rPageState, restartAt>>

\* the request arrives; a malformed id is answered 400 at once
Request ==
    /\ pc = "idle"
    /\ \E id \in RequestIds :
        /\ user_id' = id
        /\ IF wellFormed(id)
           THEN pc' = "connect" /\ res' = res
           ELSE pc' = "done" /\ res' = "400"
    /\ UNCHANGED <<paging, updater, client, connectionLost, users, resumes, tx, before, forwardsRejections>>

\* const client = await pool.connect(), outside the try block
Connect ==
    /\ pc = "connect"
    /\ \E ok \in BOOLEAN :
        IF ok
        THEN /\ client' = "held"
             /\ pc' = "begin"
             /\ res' = res
        ELSE /\ client' = client
             /\ pc' = "done"
             /\ res' = IF forwardsRejections THEN "500" ELSE "none"
    /\ UNCHANGED <<paging, updater, user_id, connectionLost, users, resumes, tx, before, forwardsRejections>>

\* await client.query("BEGIN")
Begin ==
    /\ pc = "begin"
    /\ \E outcome \in QueryOutcomes :
        /\ connectionLost' = (outcome = "lost")
        /\ IF outcome = "ok"
           THEN /\ tx' = [state |-> "open", users |-> users, resumes |-> resumes]
                /\ pc' = "deleteResumes"
           ELSE /\ tx' = noTransaction
                /\ pc' = "catch"
    /\ UNCHANGED <<paging, updater, user_id, client, users, resumes, before, res, forwardsRejections>>

\* await client.query("DELETE FROM resumes WHERE user_id = $1")
DeleteResumes ==
    /\ pc = "deleteResumes"
    /\ \E outcome \in QueryOutcomes :
        /\ connectionLost' = (outcome = "lost")
        /\ IF outcome = "ok"
           THEN /\ tx' = [tx EXCEPT !.resumes[user_id] = 0]
                /\ pc' = "deleteUser"
           ELSE /\ tx' = failed(outcome)
                /\ pc' = "catch"
    /\ UNCHANGED <<paging, updater, user_id, client, users, resumes, before, res, forwardsRejections>>

\* await client.query("DELETE FROM users WHERE id = $1"), then the
\* rowCount === 0 test that throws "User not found"
DeleteUser ==
    /\ pc = "deleteUser"
    /\ \E outcome \in QueryOutcomes :
        /\ connectionLost' = (outcome = "lost")
        /\ IF outcome = "ok"
           THEN /\ tx' = [tx EXCEPT !.users = @ \ {user_id}]
                /\ pc' = IF user_id \in tx.users THEN "commit" ELSE "catch"
           ELSE /\ tx' = failed(outcome)
                /\ pc' = "catch"
    /\ UNCHANGED <<paging, updater, user_id, client, users, resumes, before, res, forwardsRejections>>

\* await client.query("COMMIT"), then res.json({deleted_resumes, ...})
Commit ==
    /\ pc = "commit"
    /\ \E outcome \in QueryOutcomes :
        /\ connectionLost' = (outcome = "lost")
        /\ tx' = noTransaction
        /\ IF outcome = "ok"
           THEN /\ users' = tx.users
                /\ resumes' = tx.resumes
                /\ res' = "200"
                /\ pc' = "finally"
           ELSE /\ UNCHANGED <<users, resumes, res>>
                /\ pc' = "catch"
    /\ UNCHANGED <<paging, updater, user_id, client, before, forwardsRejections>>

\* catch (err): await client.query("ROLLBACK"), then res.status(500).json;
\* a ROLLBACK that rejects leaves the catch block before the response
Rollback ==
    /\ pc = "catch"
    /\ \E outcome \in RollbackOutcomes :
        /\ connectionLost' = (outcome = "lost")
        /\ tx' = noTransaction
        /\ IF outcome = "ok"
           THEN res' = "500" /\ pc' = "finally"
           ELSE res' = res /\ pc' = "finallyRejected"
    /\ UNCHANGED <<paging, updater, user_id, client, users, resumes, before, forwardsRejections>>

\* finally: client.release(); a handler that rejected is answered by the
\* router only in a build that forwards rejections
Release ==
    /\ pc \in {"finally", "finallyRejected"}
    /\ client' = "released"
    /\ res' = IF pc = "finallyRejected" /\ forwardsRejections THEN "500" ELSE res
    /\ pc' = "done"
    /\ UNCHANGED <<paging, updater, user_id, connectionLost, users, resumes, tx, before, forwardsRejections>>

NextCleanup ==
    \/ Request
    \/ Connect
    \/ Begin
    \/ DeleteResumes
    \/ DeleteUser
    \/ Commit
    \/ Rollback
    \/ Release

SpecCleanup == InitCleanup /\ [][NextCleanup]_vars

\* both the user's resumes and the user row are gone from the committed rows
bothDeleted ==
    /\ users = before.users \ {user_id}
    /\ resumes = [before.resumes EXCEPT ![user_id] = 0]

\* no committed row was deleted
nothingDeleted == users = before.users /\ resumes = before.resumes

\* C17 (Test-data cleanup is all-or-nothing): a finished request with a
\* well-formed id never leaves the pooled client held, and one that
\* obtained a client left no transaction open and either committed the
\* deletion of the user's resumes and of the user row, or deleted no row
\* and was answered with an error.
C17_CleanupAllOrNothing ==
    (pc = "done" /\ wellFormed(user_id)) =>
        /\ client # "held"
        /\ client = "released" =>
            /\ tx.state = "none"
            /\ \/ res = "200" /\ user_id \in before.users /\ bothDeleted
               \/ res = "500" /\ nothingDeleted

(* ------------------------- rollback (C18 to C20) ---------------------- *)
\* the rows a Page holds, as <<section index, row index>>
rowSet(P) ==
    UNION {{<<P.pageSections[k].src, P.pageSections[k].rows[r]>> :
                r \in 1..Len(P.pageSections[k].rows)} :
           k \in 1..Len(P.pageSections)}

\* the Page at key signals overflow in this step
signals(key) ==
    /\ key \in DOMAIN pageState'
    /\ pageState'[key].overflowSignals > pageState[key].overflowSignals

\* C18 (Cursor not advanced on overflow): whenever a Page signals overflow,
\* the cursor it passes to throwPageOverFlow is the row the rollback took
\* off the page, and that cursor is the entry appended to pages.
C18_CursorIsRolledBackRow ==
    [][\A key \in DOMAIN pageState : signals(key) =>
          LET P == pageState[key]
              Q == pageState'[key]
              cursor == [startIndex |-> Q.currentIndex,
                         startSubIndex |-> Q.currentSubIndex] IN
          /\ rowSet(P) \ rowSet(Q) = {pageKey(cursor)}
          /\ Last(pages') = cursor]_vars

\* the Page at key handles a report in this step
handles(key) ==
    /\ key \in DOMAIN pageState'
    /\ pageState'[key].handled = pageState[key].handled + 1

\* C19 (Commit boundary): in mount order, when the report of a row placed
\* after the page's first render is handled, the row stays on the page and
\* the cursor moves on to the next row if and only if contentHeight with
\* the row's height added is at most the container's height.
C19_CommitBoundary ==
    [][\A key \in DOMAIN pageState : handles(key) =>
          LET P == pageState[key]
              Q == pageState'[key]
              msg == P.pending[1] IN
          (msg.kind = "row" /\ container(P) /\ <<msg.src, msg.row>> \in rowSet(P)) =>
              ((/\ <<msg.src, msg.row>> \in rowSet(Q)
                /\ Q.overflowSignals = P.overflowSignals
                /\ <<Q.currentIndex, Q.currentSubIndex>> # <<P.currentIndex, P.currentSubIndex>>)
               <=> P.contentHeight + msg.scrollHeight <= clientHeight)]_vars

\* a page whose last row brought contentHeight to exactly the container's
\* height: the row was kept and the page went on to the end of the document
C19_Witness ==
    \E key \in DOMAIN pageState : LET P == pageState[key] IN
        /\ P.contentHeight = clientHeight
        /\ P.overflowSignals = 0
        /\ P.firstRender = 0
        /\ P.pending = <<>>
        /\ P.currentIndex >= Len(allSections)
        /\ rowCount(P) >= 2

\* C20 (Rollback removes exactly one placement): whenever a Page signals
\* overflow, the rollback removes exactly the last row of the last
\* page-section, every other row stays, and no page-section is left empty.
C20_RollbackRemovesOne ==
    [][\A key \in DOMAIN pageState : signals(key) =>
          LET P == pageState[key]
              Q == pageState'[key] IN
          /\ P.pageSections # <<>>
          /\ Last(P.pageSections).rows # <<>>
          /\ rowSet(P) \ rowSet(Q) =
                {<<Last(P.pageSections).src, Last(Last(P.pageSections).rows)>>}
          /\ rowSet(Q) \subseteq rowSet(P)
          /\ \A k \in 1..Len(Q.pageSections) : Q.pageSections[k].rows # <<>>]_vars

(* --------------------------- claims C21 to C30 ------------------------ *)
\* C21 (Height accounting after rollback): on every page whose construction
\* has ended, contentHeight is the margin allowance plus the heights of the
\* titles and rows that remain on the page.
C21_HeightAccounting ==
    \A key \in DOMAIN pageState : LET P == pageState[key] IN
        pageEnded(P) => P.contentHeight = allMarginBorderHeight + placedHeight(P)

\* C22 (Normal end of document): a Page whose cursor has left the last
\* section has its section cursor equal to the number of sections, has
\* signalled no overflow, and a further call of addOneMoreSubSection leaves
\* it as it is.
C22_NormalEnd ==
    \A key \in DOMAIN pageState : LET P == pageState[key] IN
        (P.mounted /\ P.currentIndex >= Len(allSections)) =>
            /\ P.currentIndex = Len(allSections)
            /\ P.overflowSignals = 0
            /\ addOneMoreSubSection(P) = P

\* a page that committed the last row of the document after an earlier row
C22_Witness ==
    \E key \in DOMAIN pageState : LET P == pageState[key] IN
        /\ P.mounted
        /\ P.currentIndex = Len(allSections)
        /\ P.pending = <<>>
        /\ rowCount(P) >= 2
        /\ Len(pages) >= 2
        /\ pageKey(Last(pages)) = key

\* C28 (At most one overflow signal per page): no Page calls
\* throwPageOverFlow more than once, in whatever order its outstanding
\* reports are handled.
C28_OneOverflowSignal ==
    \A key \in DOMAIN pageState : pageState[key].overflowSignals <= 1

\* the document rows from cursor (i, j) on, in document order, as
\* <<section index, row index>>
RECURSIVE rowsFrom(_, _)
rowsFrom(i, j) ==
    IF i >= Len(allSections) THEN <<>>
    ELSE IF j >= rowsLength(i) THEN rowsFrom(i + 1, 0)
    ELSE <<<<i, j>>>> \o rowsFrom(i, j + 1)

\* the rows a Page holds, read in page-section order
heldRows(P) ==
    Flatten([k \in 1..Len(P.pageSections) |->
        [r \in 1..Len(P.pageSections[k].rows) |->
            <<P.pageSections[k].src, P.pageSections[k].rows[r]>>]])

\* C29 (Per-page contiguity): on every page whose construction has ended,
\* the rows held, in page-section order, are the document rows from the
\* page's start cursor up to the cursor it stopped at (the rolled-back row,
\* or the end of the document), and the page-sections are in strictly
\* ascending source-section order.
C29_PerPageContiguity ==
    \A key \in DOMAIN pageState : LET P == pageState[key] IN
        pageEnded(P) =>
            /\ heldRows(P) \o rowsFrom(P.currentIndex, P.currentSubIndex)
                  = rowsFrom(key[1], key[2])
            /\ \A k \in 1..(Len(P.pageSections) - 1) :
                  P.pageSections[k].src < P.pageSections[k + 1].src

\* a Page that has neither signalled overflow nor reached the end of the
\* document
underConstruction(P) == P.mounted /\ ~pageFinished(P)

\* C30 (Cursor invariant): while a Page is under construction its cursor
\* names a row of the document, that row is the last row of the last
\* page-section, and a call of addOneMoreSubSection moves the cursor to the
\* next row in document order.
C30_CursorInvariant ==
    \A key \in DOMAIN pageState : LET P == pageState[key] IN
        underConstruction(P) =>
            /\ P.currentIndex \in 0..(Len(allSections) - 1)
            /\ P.currentSubIndex \in 0..(rowsLength(P.currentIndex) - 1)
            /\ P.pageSections # <<>>
            /\ Last(P.pageSections).src = P.currentIndex
            /\ Last(P.pageSections).rows # <<>>
            /\ Last(Last(P.pageSections).rows) = P.currentSubIndex
            /\ LET Q == addOneMoreSubSection(P) IN
               rowsFrom(P.currentIndex, P.currentSubIndex) =
                  <<<<P.currentIndex, P.currentSubIndex>>>>
                      \o rowsFrom(Q.currentIndex, Q.currentSubIndex)

\* a Page under construction whose cursor has moved into a second section
C30_Witness ==
    \E key \in DOMAIN pageState : LET P == pageState[key] IN
        /\ underConstruction(P)
        /\ Len(P.pageSections) >= 2
        /\ P.currentIndex > key[1]
        /\ P.firstRender = 0

(* --------- media status updater: cloud function updateMediaRecord ----- *)
(* One step per awaited call of the handler.  The function is deployed     *)
(* with --max-instances=2, so two invocations can run at the same time.    *)
(* pool is a pool of PostgreSQL clients (READ COMMITTED): a statement      *)
(* waits for a row another open transaction has written, a statement that  *)
(* fails leaves its transaction aborted, every later statement of an       *)
(* aborted transaction fails, COMMIT of an aborted transaction discards    *)
(* its writes, and CURRENT_TIMESTAMP is the transaction's start time.      *)
(* A second instance is started only while the first one is busy.          *)

MaxTime == 2            \* largest updated_at of a manifest or a stored row
MaxEvents == 2          \* cloud events delivered in one behaviour

Instances == {1, 2}     \* --max-instances=2

validStates == {"pending", "processing", "ready", "failed"}
terminalStates == {"ready", "failed"}

sizeMap == (150 :> "thumbnail") @@ (320 :> "small") @@ (768 :> "medium") @@ (1200 :> "large")

\* getVariantType: sizeMap[size] || `size_${size}`
getVariantType(size) ==
    IF size \in DOMAIN sizeMap THEN sizeMap[size] ELSE "size_other"

\* the variants a manifest can list: [size, path]
thumbA == [size |-> 150, path |-> "a.webp"]
thumbC == [size |-> 150, path |-> "c.webp"]
smallB == [size |-> 320, path |-> "b.webp"]
VariantLists == {<<>>, <<thumbC>>, <<thumbA, smallB>>}

\* manifest.json contents; "bogus" is a state outside validStates, "m2" an
\* id with no row in media
Manifests ==
    {[media_id |-> "m1", state |-> st, updated_at |-> t, variants |-> <<>>] :
        st \in {"processing", "failed", "bogus"}, t \in 1..MaxTime}
    \cup {[media_id |-> "m1", state |-> "ready", updated_at |-> t, variants |-> vs] :
        t \in 1..MaxTime, vs \in VariantLists}
    \cup {[media_id |-> "m2", state |-> "processing", updated_at |-> 1, variants |-> <<>>]}

\* rows of media with id m1
MediaRows == [status : {"pending", "ready", "failed"}, updated_at : 1..MaxTime,
              deleted_at : BOOLEAN]

idle == [pc |-> "idle", manifest |-> <<>>, client |-> "none", releases |-> 0,
         tx |-> [state |-> "none"], i |-> 0,
         control |-> <<>>, updated |-> FALSE, rejected |-> {}]

\* inst[k].control: the BEGIN, COMMIT and ROLLBACK statements the invocation
\* has issued, each with its outcome; updated: the UPDATE returned a row;
\* rejected: the variants whose upsert was refused
issued(stmt, outcome) == [stmt |-> stmt, outcome |-> outcome]

InitUpdater ==
    /\ allSections = <<>>
    /\ clientHeight = 0
    /\ eagerBlocks = FALSE
    /\ pages = <<>>
    /\ pageState = <<>>
    /\ rPages = <<>>
    /\ rPageState = <<>>
    /\ restartAt = 0
    /\ noRequest
    /\ \E row \in MediaRows : media = ("m1" :> row)
    /\ media_variants \in {<<>>, (<<"m1", "thumbnail">> :>
            [object_key |-> "a.webp", size |-> 150, created_at |-> 0])}
    /\ now = 1
    /\ inst = [k \in Instances |-> idle]
    /\ events = 0
    /\ faults \in BOOLEAN
    /\ redelivery = FALSE
    /\ afterFirst = <<>>

\* outcomes of an awaited call: it resolves or it rejects (the download
\* fails, no connection is to be had, the database refuses the statement)
outcomes == IF faults THEN {"ok", "error"} ELSE {"ok"}

\* the transaction after a statement of it was refused
txFailed(I) == [I.tx EXCEPT !.state = "aborted"]

\* another instance's unfinished transaction has written the media row m
mediaLocked(k, m) ==
    \E o \in Instances \ {k} :
        inst[o].tx.state # "none" /\ m \in DOMAIN inst[o].tx.media

\* another instance's unfinished transaction has written the variant key
variantLocked(k, key) ==
    \E o \in Instances \ {k} :
        inst[o].tx.state # "none" /\ key \in DOMAIN inst[o].tx.variants

others == <<paging, testUtils>>

\* afterFirst once an invocation returns
firstReturn ==
    IF afterFirst = <<>>
    THEN <<[media |-> media, media_variants |-> media_variants]>>
    ELSE afterFirst

\* the cloud event arrives at an idle instance: file name test, download,
\* JSON.parse, required fields and validStates test
Receive(k) ==
    /\ inst[k].pc = "idle"
    /\ events < MaxEvents
    /\ events' = events + 1
    /\ k = 2 => inst[1].pc # "idle"
    /\ \E manifest \in Manifests, downloaded \in {o = "ok" : o \in outcomes} :
        /\ redelivery /\ events > 0 =>
              \E o \in Instances : inst[o].manifest = manifest
        /\ inst' = [inst EXCEPT ![k] =
              [idle EXCEPT !.manifest = manifest,
                           !.pc = IF downloaded /\ manifest.state \in validStates
                                  THEN "connect" ELSE "idle"]]
        /\ afterFirst' = IF downloaded /\ manifest.state \in validStates
                         THEN afterFirst ELSE firstReturn
    /\ UNCHANGED <<others, media, media_variants, now, faults, redelivery>>

\* client = await pool.connect()
PoolConnect(k) ==
    /\ inst[k].pc = "connect"
    /\ \E outcome \in outcomes :
        inst' = [inst EXCEPT ![k] =
            IF outcome = "ok"
            THEN [@ EXCEPT !.client = "held", !.pc = "begin"]
            ELSE [@ EXCEPT !.pc = "finally"]]
    /\ UNCHANGED <<others, media, media_variants, now, events, faults, redelivery, afterFirst>>

\* await client.query("BEGIN"), outside the inner try block
UpdaterBegin(k) ==
    /\ inst[k].pc = "begin"
    /\ \E outcome \in outcomes :
        /\ inst' = [inst EXCEPT ![k] =
            IF outcome = "ok"
            THEN [@ EXCEPT !.control = Append(@, issued("BEGIN", outcome)),
                           !.pc = "update",
                           !.tx = [state |-> "open", start |-> now,
                                   media |-> <<>>, variants |-> <<>>]]
            ELSE [@ EXCEPT !.control = Append(@, issued("BEGIN", outcome)),
                           !.pc = "finally"]]
        /\ now' = IF outcome = "ok" THEN now + 1 ELSE now
    /\ UNCHANGED <<others, media, media_variants, events, faults, redelivery, afterFirst>>

\* the WHERE clause without status NOT IN ('ready', 'failed')
updatableAnyStatus(manifest) ==
    /\ manifest.media_id \in DOMAIN media
    /\ ~media[manifest.media_id].deleted_at
    /\ media[manifest.media_id].updated_at <= manifest.updated_at

\* the WHERE clause without updated_at <= $2
updatableAnyTime(manifest) ==
    /\ manifest.media_id \in DOMAIN media
    /\ ~media[manifest.media_id].deleted_at
    /\ media[manifest.media_id].status \notin terminalStates

\* the WHERE clause of UPDATE media
updatable(manifest) ==
    /\ manifest.media_id \in DOMAIN media
    /\ ~media[manifest.media_id].deleted_at
    /\ media[manifest.media_id].status \notin terminalStates
    /\ media[manifest.media_id].updated_at <= manifest.updated_at

hasVariants(manifest) == manifest.state = "ready" /\ Len(manifest.variants) > 0

\* UPDATE media SET status, updated_at WHERE ... RETURNING, then the
\* rowCount test
UpdateMedia(k) ==
    LET I == inst[k]
        m == I.manifest.media_id IN
    /\ I.pc = "update"
    /\ \E outcome \in outcomes :
        /\ outcome = "ok" /\ updatable(I.manifest) => ~mediaLocked(k, m)
        /\ inst' = [inst EXCEPT ![k] =
            IF outcome # "ok"
            THEN [@ EXCEPT !.tx = txFailed(I), !.pc = "catch"]
            ELSE IF updatable(I.manifest)
            THEN [@ EXCEPT !.tx.media = (m :> [media[m] EXCEPT
                                                  !.status = I.manifest.state,
                                                  !.updated_at = I.manifest.updated_at]),
                           !.pc = IF hasVariants(I.manifest) THEN "variants" ELSE "commit",
                           !.i = 1, !.updated = TRUE]
            ELSE [@ EXCEPT !.pc = "check"]]
    /\ UNCHANGED <<others, media, media_variants, now, events, faults, redelivery, afterFirst>>

\* SELECT id, status, updated_at, deleted_at FROM media WHERE id = $1 and
\* the branches on its result
CheckMedia(k) ==
    LET I == inst[k]
        m == I.manifest.media_id IN
    /\ I.pc = "check"
    /\ \E outcome \in outcomes :
        inst' = [inst EXCEPT ![k] =
            IF outcome # "ok"
            THEN [@ EXCEPT !.tx = txFailed(I), !.pc = "catch"]
            ELSE IF m \notin DOMAIN media
            THEN [@ EXCEPT !.pc = "notFound"]
            ELSE IF ~media[m].deleted_at /\ media[m].status \in terminalStates
                    /\ hasVariants(I.manifest)
            THEN [@ EXCEPT !.pc = "variants", !.i = 1]
            ELSE [@ EXCEPT !.pc = "commit"]]
    /\ UNCHANGED <<others, media, media_variants, now, events, faults, redelivery, afterFirst>>

\* media not found: return without the ROLLBACK
NotFoundReturn(k) ==
    /\ inst[k].pc = "notFound"
    /\ inst' = [inst EXCEPT ![k] = [@ EXCEPT !.pc = "finally"]]
    /\ UNCHANGED <<others, media, media_variants, now, events, faults, redelivery, afterFirst>>

\* media not found: await client.query("ROLLBACK"); return
NotFoundRollback(k) ==
    LET I == inst[k] IN
    /\ I.pc = "notFound"
    /\ inst' = [inst EXCEPT ![k] =
          [@ EXCEPT !.control = Append(@, issued("ROLLBACK", "ok")),
                    !.tx = [state |-> "none"], !.pc = "finally"]]
    /\ UNCHANGED <<others, media, media_variants, now, events, faults, redelivery, afterFirst>>

\* the upsert with created_at = CURRENT_TIMESTAMP in every case
upsertFreshCreatedAt(I, key, v) ==
    [object_key |-> v.path, size |-> v.size, created_at |-> I.tx.start]

\* the row the upsert of variant v writes: created_at is kept when the
\* stored bucket and object key are the ones inserted
upsert(I, key, v) ==
    LET stored == IF key \in DOMAIN I.tx.variants THEN <<I.tx.variants[key]>>
                  ELSE IF key \in DOMAIN media_variants THEN <<media_variants[key]>>
                  ELSE <<>> IN
    [object_key |-> v.path, size |-> v.size,
     created_at |-> IF stored # <<>> /\ stored[1].object_key = v.path
                    THEN stored[1].created_at ELSE I.tx.start]

\* insertVariants: one INSERT ... ON CONFLICT (media_id, variant_type) DO
\* UPDATE per loop iteration; a rejected query is caught and the loop goes on
InsertVariant(k) ==
    LET I == inst[k]
        v == I.manifest.variants[I.i]
        key == <<I.manifest.media_id, getVariantType(v.size)>>
        next == IF I.i < Len(I.manifest.variants) THEN "variants" ELSE "commit" IN
    /\ I.pc = "variants"
    /\ \E outcome \in outcomes :
        /\ outcome = "ok" => I.tx.state = "open" /\ ~variantLocked(k, key)
        /\ inst' = [inst EXCEPT ![k] =
            IF outcome = "ok"
            THEN [@ EXCEPT !.tx.variants = (key :> upsert(I, key, v)) @@ @,
                           !.i = @ + 1, !.pc = next]
            ELSE [@ EXCEPT !.tx = txFailed(I), !.rejected = @ \cup {I.i},
                           !.i = @ + 1, !.pc = next]]
    /\ UNCHANGED <<others, media, media_variants, now, events, faults, redelivery, afterFirst>>

\* await client.query("COMMIT"): the writes of an open transaction become
\* the committed rows; an aborted transaction is rolled back
UpdaterCommit(k) ==
    LET I == inst[k] IN
    /\ I.pc = "commit"
    /\ \E outcome \in outcomes :
        /\ inst' = [inst EXCEPT ![k] =
            [@ EXCEPT !.control = Append(@, issued("COMMIT", outcome)),
                      !.tx = [state |-> "none"],
                      !.pc = IF outcome = "ok" THEN "finally" ELSE "catch"]]
        /\ IF outcome = "ok" /\ I.tx.state = "open"
           THEN /\ media' = I.tx.media @@ media
                /\ media_variants' = I.tx.variants @@ media_variants
           ELSE UNCHANGED <<media, media_variants>>
    /\ UNCHANGED <<others, now, events, faults, redelivery, afterFirst>>

\* catch (err) { await client.query("ROLLBACK"); throw err }, then the
\* outer catch, which logs
CatchRollback(k) ==
    LET I == inst[k] IN
    /\ I.pc = "catch"
    /\ inst' = [inst EXCEPT ![k] =
          [@ EXCEPT !.control = Append(@, issued("ROLLBACK", "ok")),
                    !.tx = [state |-> "none"], !.pc = "finally"]]
    /\ UNCHANGED <<others, media, media_variants, now, events, faults, redelivery, afterFirst>>

\* finally { if (client) client.release() }, and the invocation returns
Finally(k) ==
    LET I == inst[k] IN
    /\ I.pc = "finally"
    /\ inst' = [inst EXCEPT ![k] =
          IF I.client = "held"
          THEN [@ EXCEPT !.client = "released", !.releases = @ + 1, !.pc = "idle"]
          ELSE [@ EXCEPT !.pc = "idle"]]
    /\ afterFirst' = firstReturn
    /\ UNCHANGED <<others, media, media_variants, now, events, faults, redelivery>>

NextUpdater ==
    \E k \in Instances :
        \/ Receive(k)
        \/ PoolConnect(k)
        \/ UpdaterBegin(k)
        \/ UpdateMedia(k)
        \/ CheckMedia(k)
        \/ NotFoundRollback(k)
        \/ InsertVariant(k)
        \/ UpdaterCommit(k)
        \/ CatchRollback(k)
        \/ Finally(k)

SpecUpdater == InitUpdater /\ [][NextUpdater]_vars

\* the invocation of instance k has returned
returned(k) == inst[k].pc = "idle" /\ inst[k].manifest # <<>>

\* instance k issues a COMMIT that succeeds in this step
commits(k) ==
    /\ Len(inst'[k].control) > Len(inst[k].control)
    /\ Last(inst'[k].control) = issued("COMMIT", "ok")

\* C23 (Terminal-state protection): no step changes the status or the
\* updated_at of a media row whose status is 'ready' or 'failed'.
C23_TerminalStateProtection ==
    [][\A m \in DOMAIN media : media[m].status \in terminalStates =>
          /\ m \in DOMAIN media'
          /\ media'[m].status = media[m].status
          /\ media'[m].updated_at = media[m].updated_at]_vars

\* a committed invocation whose manifest carried another state and a later
\* timestamp than the terminal row has
C23_Witness ==
    /\ "m1" \in DOMAIN media
    /\ media["m1"].status \in terminalStates
    /\ ~media["m1"].deleted_at
    /\ \E k \in Instances :
        /\ returned(k)
        /\ inst[k].control = <<issued("BEGIN", "ok"), issued("COMMIT", "ok")>>
        /\ inst[k].manifest.media_id = "m1"
        /\ inst[k].manifest.state \in validStates \ {media["m1"].status}
        /\ inst[k].manifest.updated_at > media["m1"].updated_at

\* C24 (Ordering protection): a media row changes only when an invocation
\* commits a manifest for it whose updated_at is not earlier than the
\* stored one, and the row then has the manifest's updated_at; updated_at
\* never decreases and a soft-deleted row never changes.
C24_OrderingProtection ==
    [][\A m \in DOMAIN media :
          /\ m \in DOMAIN media'
          /\ media'[m].updated_at >= media[m].updated_at
          /\ media[m].deleted_at => media'[m] = media[m]
          /\ media'[m] # media[m] =>
                \E k \in Instances :
                    /\ commits(k)
                    /\ inst[k].manifest.media_id = m
                    /\ inst[k].manifest.updated_at >= media[m].updated_at
                    /\ media'[m].updated_at = inst[k].manifest.updated_at]_vars

\* two invocations ran at the same time and the one with the earlier
\* manifest committed without changing the row
C24_Witness ==
    /\ "m1" \in DOMAIN media
    /\ media["m1"].status \notin terminalStates
    /\ ~media["m1"].deleted_at
    /\ \A k \in Instances : returned(k) /\ inst[k].manifest.media_id = "m1"
    /\ \E k \in Instances :
        /\ inst[k].control = <<issued("BEGIN", "ok"), issued("COMMIT", "ok")>>
        /\ inst[k].manifest.state \in validStates
        /\ inst[k].manifest.updated_at < media["m1"].updated_at
        /\ \E o \in Instances \ {k} :
            /\ inst[o].updated
            /\ inst[o].manifest.updated_at = media["m1"].updated_at

\* the COMMIT and ROLLBACK statements among the ones issued
terminators(I) == SelectSeq(I.control, LAMBDA c : c.stmt \in {"COMMIT", "ROLLBACK"})

\* instance k issues a ROLLBACK in this step
rollsBack(k) ==
    /\ Len(inst'[k].control) > Len(inst[k].control)
    /\ Last(inst'[k].control).stmt = "ROLLBACK"

\* the client was acquired if and only if it was released, once
releasedOnce(I) ==
    /\ I.client # "held"
    /\ I.releases = (IF I.client = "released" THEN 1 ELSE 0)
    /\ I.control # <<>> => I.client = "released"

stored(I, i, variants) ==
    LET v == I.manifest.variants[i]
        key == <<I.manifest.media_id, getVariantType(v.size)>> IN
    key \in DOMAIN variants /\ variants[key].object_key = v.path

\* the first variant whose upsert was refused
firstRejected(I) == CHOOSE i \in I.rejected : \A j \in I.rejected : i <= j

\* C26 (Variant failure is isolated): when an invocation whose UPDATE
\* returned a row and one of whose variant upserts was refused commits
\* successfully, the media row has the manifest's status and every other
\* variant of the manifest is stored.
C26_VariantFailureIsolated ==
    [][\A k \in Instances :
          (commits(k) /\ inst[k].updated /\ inst[k].rejected # {}) =>
              LET I == inst[k] IN
              /\ media'[I.manifest.media_id].status = I.manifest.state
              /\ \A i \in (1..Len(I.manifest.variants)) \ {firstRejected(I)} :
                    stored(I, i, media_variants')]_vars

\* redelivery: the second event carries the manifest of the first, and no
\* download, connection or statement fails
InitRedelivery ==
    /\ allSections = <<>>
    /\ clientHeight = 0
    /\ eagerBlocks = FALSE
    /\ pages = <<>>
    /\ pageState = <<>>
    /\ rPages = <<>>
    /\ rPageState = <<>>
    /\ restartAt = 0
    /\ noRequest
    /\ \E row \in MediaRows : media = ("m1" :> row)
    /\ media_variants \in {<<>>, (<<"m1", "thumbnail">> :>
            [object_key |-> "a.webp", size |-> 150, created_at |-> 0])}
    /\ now = 1
    /\ inst = [k \in Instances |-> idle]
    /\ events = 0
    /\ faults = FALSE
    /\ redelivery = TRUE
    /\ afterFirst = <<>>

NextRedelivery ==
    \E k \in Instances :
        \/ Receive(k)
        \/ PoolConnect(k)
        \/ UpdaterBegin(k)
        \/ UpdateMedia(k)
        \/ CheckMedia(k)
        \/ NotFoundRollback(k)
        \/ InsertVariant(k)
        \/ UpdaterCommit(k)
        \/ Finally(k)

SpecRedelivery == InitRedelivery /\ [][NextRedelivery]_vars

\* both deliveries of the manifest have been processed
bothReturned == events = 2 /\ \A k \in Instances : inst[k].pc = "idle"

====
